---- MODULE Spec2Model ----
(***************************************************************************)
(* Threshold scheduling engine of training_models/threshold_scheduler.py.  *)
(*                                                                         *)
(* Python floats are modelled in fixed point: a tau value v stands for     *)
(* v / Scale, a progress fraction f for f / Scale, and a validation loss   *)
(* or gradient norm x for x * 5e-7 (so that the 1e-6 improvement margin    *)
(* of the adaptive methods is the integer Eps).  math.cos and math.exp are *)
(* computed by their power series in fixed point.                          *)
(***************************************************************************)
EXTENDS Integers, Sequences, FiniteSets, TLC

VARIABLES
    args,          \* the configuration bag read by get_threshold_scheduler
    total_epochs,  \* second argument of get_threshold_scheduler
    state,         \* the Driver-owned dict: tau_hist, val_loss_hist, grad_norm_hist
    epoch_idx,     \* the epoch index of the current scheduler call
    tau,           \* the threshold in use: args.tau_min, then the scheduler's returns
    pc             \* "idle": before the call of this epoch; "called": after it

vars == <<args, total_epochs, state, epoch_idx, tau, pc>>

----------------------------------------------------------------------------
(* Representation and bounds *)

\* one unit of tau is 1/Scale
Scale == 1000

\* math.pi in units of 1/Scale
PiFix == 3142

\* the 1e-6 margin, in units of 5e-7
Eps == 2

\* 0.05, 0.02, 0.04, 0.02 in hundredths
FastDownVal == 5
SlowDownVal == 2
FastDownGrad == 4
SlowDownGrad == 2

\* default exp_k (5.0)
DefaultExpK == 5

\* longest tau_hist drawn as an input
MaxTauHist == 1
\* longest val_loss_hist / grad_norm_hist drawn as an input
MaxMetricHist == 2
\* largest epoch index drawn as an input
MaxEpoch == 3
\* number of epochs of a training run after the first
MaxRunEpoch == 2
\* number of epochs of a long adaptive run after the first
MaxLongEpoch == 52

Methods == {"fixed", "linear", "cosine", "exp", "adaptive_val",
            "adaptive_grad", "custom", "step"}
KnownMethods == Methods \ {"step"}

\* <<tau_min, tau_max>> as configured, in either order
BoundPairs == {<<100, 900>>, <<300, 700>>, <<0, 1000>>, <<900, 100>>}
TotalEpochs == {1, 3}
Warmups == {0, 2}
ExpKs == {1, DefaultExpK}
\* entries a caller may have put in tau_hist: below, inside and above the bounds
TauVals == {0, 300, 500, 1000}
\* metric values: 3 improves on 0 by more than Eps, 2 by exactly Eps
LossVals == {0, 2, 3}

SeqsUpTo(S, n) == UNION {[1..k -> S] : k \in 0..n}

----------------------------------------------------------------------------
(* Arithmetic helpers *)

Abs(x) == IF x < 0 THEN -x ELSE x
Min2(a, b) == IF a <= b THEN a ELSE b
Max2(a, b) == IF a >= b THEN a ELSE b
\* quotient rounded toward zero
Div(a, b) == IF a >= 0 THEN a \div b ELSE -((-a) \div b)

\* sum of the cosine series from the term `term` of index n (x2 = x*x)
RECURSIVE CosSum(_, _, _)
CosSum(term, n, x2) ==
    IF term = 0 THEN 0
    ELSE term + CosSum(Div(Div(-(term * x2), (2*n + 1) * (2*n + 2)), Scale), n + 1, x2)

\* math.cos(x)
Cos(x) == CosSum(Scale, 0, Div(x * x, Scale))

\* sum of the exponential series from the term `term` of index n
RECURSIVE ExpSum(_, _, _)
ExpSum(term, n, x) ==
    IF term = 0 THEN 0
    ELSE term + ExpSum(Div(Div(term * x, n + 1), Scale), n + 1, x)

\* math.exp(-x) for x >= 0, as 1 / exp(x)
ExpNeg(x) == Div(Scale * Scale, ExpSum(Scale, 0, x))

----------------------------------------------------------------------------
(* threshold_scheduler.py *)

clamp(value, low, high) ==
    LET lo == Min2(low, high)
        hi == Max2(low, high)
    IN  IF value < lo THEN lo
        ELSE IF value > hi THEN hi
        ELSE value

progress(e, T) ==
    IF T <= 1 THEN Scale
    ELSE Max2(0, Min2(Scale, Div(e * Scale, T - 1)))

\* variant: an empty history is seeded with tau_max
last_tau_seed_max(a, st) ==
    IF st.tau_hist = <<>> THEN a.tau_max
    ELSE st.tau_hist[Len(st.tau_hist)]

\* (state.get("tau_hist") or [tau_min])[-1]
last_tau(a, st) ==
    IF st.tau_hist = <<>> THEN a.tau_min
    ELSE st.tau_hist[Len(st.tau_hist)]

\* tau_min + (tau_max - tau_min) * frac
Ramp(a, frac) == a.tau_min + Div((a.tau_max - a.tau_min) * frac, Scale)

\* variant: the fixed value is taken from the lower bound
fixed_scheduler_lower(a, st) ==
    LET candidate == clamp(Min2(a.tau_min, a.tau_max), a.tau_min, a.tau_max)
    IN  Min2(candidate, last_tau(a, st))

fixed_scheduler(a, st) ==
    LET candidate == clamp(a.tau_min, a.tau_min, a.tau_max)
    IN  Min2(candidate, last_tau(a, st))

\* variant: the candidate is returned without the running minimum
linear_scheduler_rising(a, T, e, st) ==
    clamp(Ramp(a, progress(e, T)), a.tau_min, a.tau_max)

linear_scheduler(a, T, e, st) ==
    LET p == progress(e, T)
        candidate == clamp(Ramp(a, p), a.tau_min, a.tau_max)
    IN  Min2(candidate, last_tau(a, st))

cosine_scheduler(a, T, e, st) ==
    LET warmup == a.cosine_warmup_epochs
    IN  IF e < warmup /\ warmup > 0
        THEN LET wp == Div(e * Scale, Max2(1, warmup))
                 candidate == clamp(Ramp(a, wp), a.tau_min, a.tau_max)
             IN  Min2(candidate, last_tau(a, st))
        ELSE LET denom == Max2(1, T - Max2(0, warmup))
                 t == Div((e - warmup) * Scale, denom)
                 angle == Div(PiFix * Max2(0, Min2(Scale, t)), Scale)
                 cos_term == Div(Scale - Cos(angle), 2)
                 candidate == clamp(Ramp(a, cos_term), a.tau_min, a.tau_max)
             IN  Min2(candidate, last_tau(a, st))

exp_scheduler(a, T, e, st) ==
    LET p == progress(e, T)
        v == Scale - ExpNeg(a.exp_k * p)
        candidate == clamp(Ramp(a, v), a.tau_min, a.tau_max)
    IN  Min2(candidate, last_tau(a, st))

\* variant: an improvement of exactly 1e-6 counts as improved
adaptive_val_scheduler_le(a, st) ==
    LET fast_down == Div(FastDownVal * Abs(a.tau_max - a.tau_min), 100)
        slow_down == Div(SlowDownVal * Abs(a.tau_max - a.tau_min), 100)
        hist == st.val_loss_hist
        n == Len(hist)
    IN  IF n < 2
        THEN clamp(last_tau(a, st) - slow_down, a.tau_min, a.tau_max)
        ELSE LET improved == hist[n] <= hist[n - 1] - Eps
                 step == IF improved THEN fast_down ELSE slow_down
                 candidate == last_tau(a, st) - step
             IN  clamp(Min2(candidate, last_tau(a, st)), a.tau_min, a.tau_max)

\* variant: tau is raised on improvement and the running minimum is dropped
adaptive_val_scheduler_raise(a, st) ==
    LET fast_down == Div(FastDownVal * Abs(a.tau_max - a.tau_min), 100)
        slow_down == Div(SlowDownVal * Abs(a.tau_max - a.tau_min), 100)
        hist == st.val_loss_hist
        n == Len(hist)
    IN  IF n < 2
        THEN clamp(last_tau(a, st) - slow_down, a.tau_min, a.tau_max)
        ELSE LET improved == hist[n] < hist[n - 1] - Eps
                 candidate == IF improved THEN last_tau(a, st) + fast_down
                              ELSE last_tau(a, st) - slow_down
             IN  clamp(candidate, a.tau_min, a.tau_max)

adaptive_val_scheduler(a, st) ==
    LET fast_down == Div(FastDownVal * Abs(a.tau_max - a.tau_min), 100)
        slow_down == Div(SlowDownVal * Abs(a.tau_max - a.tau_min), 100)
        hist == st.val_loss_hist
        n == Len(hist)
    IN  IF n < 2
        THEN clamp(last_tau(a, st) - slow_down, a.tau_min, a.tau_max)
        ELSE LET improved == hist[n] < hist[n - 1] - Eps
                 step == IF improved THEN fast_down ELSE slow_down
                 candidate == last_tau(a, st) - step
             IN  clamp(Min2(candidate, last_tau(a, st)), a.tau_min, a.tau_max)

\* variant: the slow step is as large as the fast one
adaptive_grad_scheduler_one_step(a, st) ==
    LET fast_down == Div(FastDownGrad * Abs(a.tau_max - a.tau_min), 100)
        slow_down == Div(FastDownGrad * Abs(a.tau_max - a.tau_min), 100)
        hist == st.grad_norm_hist
        n == Len(hist)
    IN  IF n < 2
        THEN clamp(last_tau(a, st) - slow_down, a.tau_min, a.tau_max)
        ELSE LET decreased == hist[n] < hist[n - 1] - Eps
                 step == IF decreased THEN fast_down ELSE slow_down
                 candidate == last_tau(a, st) - step
             IN  clamp(Min2(candidate, last_tau(a, st)), a.tau_min, a.tau_max)

\* variant: tau is held when the gradient norm did not decrease
adaptive_grad_scheduler_hold(a, st) ==
    LET fast_down == Div(FastDownGrad * Abs(a.tau_max - a.tau_min), 100)
        hist == st.grad_norm_hist
        n == Len(hist)
    IN  IF n < 2
        THEN clamp(last_tau(a, st), a.tau_min, a.tau_max)
        ELSE LET decreased == hist[n] < hist[n - 1] - Eps
                 step == IF decreased THEN fast_down ELSE 0
                 candidate == last_tau(a, st) - step
             IN  clamp(Min2(candidate, last_tau(a, st)), a.tau_min, a.tau_max)

adaptive_grad_scheduler(a, st) ==
    LET fast_down == Div(FastDownGrad * Abs(a.tau_max - a.tau_min), 100)
        slow_down == Div(SlowDownGrad * Abs(a.tau_max - a.tau_min), 100)
        hist == st.grad_norm_hist
        n == Len(hist)
    IN  IF n < 2
        THEN clamp(last_tau(a, st) - slow_down, a.tau_min, a.tau_max)
        ELSE LET decreased == hist[n] < hist[n - 1] - Eps
                 step == IF decreased THEN fast_down ELSE slow_down
                 candidate == last_tau(a, st) - step
             IN  clamp(Min2(candidate, last_tau(a, st)), a.tau_min, a.tau_max)

custom_scheduler(a, st) ==
    LET candidate == clamp(a.tau_min, a.tau_min, a.tau_max)
    IN  Min2(candidate, last_tau(a, st))

\* variant: the fallback keeps the running minimum, as fixed does
fallback_scheduler_min(a, st) ==
    Min2(clamp(a.tau_min, a.tau_min, a.tau_max), last_tau(a, st))

fallback_scheduler(a, st) == clamp(a.tau_min, a.tau_min, a.tau_max)

\* get_threshold_scheduler(args, total_epochs)(epoch_idx, state)
scheduler(a, T, e, st) ==
    CASE a.threshold_method = "fixed" -> fixed_scheduler(a, st)
      [] a.threshold_method = "linear" -> linear_scheduler(a, T, e, st)
      [] a.threshold_method = "cosine" -> cosine_scheduler(a, T, e, st)
      [] a.threshold_method = "exp" -> exp_scheduler(a, T, e, st)
      [] a.threshold_method = "adaptive_val" -> adaptive_val_scheduler(a, st)
      [] a.threshold_method = "adaptive_grad" -> adaptive_grad_scheduler(a, st)
      [] a.threshold_method = "custom" -> custom_scheduler(a, st)
      [] OTHER -> fallback_scheduler(a, st)

\* the state dict as a scheduler call leaves it: every closure only reads it
\* (state.get), none assigns to it or to a list it holds
\* variant: the default is stored, as state.setdefault("tau_hist", [tau_min]) would
state_after_call_setdefault(a, st) ==
    IF st.tau_hist = <<>> THEN [st EXCEPT !.tau_hist = <<a.tau_min>>] ELSE st

state_after_call(a, st) == st

----------------------------------------------------------------------------
(* Configurations and states *)

\* cosine_warmup_epochs is read only by the cosine branch, exp_k only by exp
ArgsSet ==
    {[threshold_method |-> m, tau_min |-> b[1], tau_max |-> b[2],
      cosine_warmup_epochs |-> w, exp_k |-> k] :
        m \in Methods, b \in BoundPairs, w \in Warmups, k \in ExpKs}

Configs ==
    {a \in ArgsSet :
        /\ a.threshold_method # "cosine" => a.cosine_warmup_epochs = 0
        /\ a.threshold_method # "exp" => a.exp_k = DefaultExpK}

EmptyState == [tau_hist |-> <<>>, val_loss_hist |-> <<>>, grad_norm_hist |-> <<>>]

\* histories under a key the method's closure never reads
UnreadHists == {<<>>, <<3, 0>>}

\* the states a scheduler of method m is called on: every tau_hist, every
\* history under the metric key that m reads
States(m) ==
    {[tau_hist |-> th, val_loss_hist |-> vh, grad_norm_hist |-> gh] :
        th \in SeqsUpTo(TauVals, MaxTauHist),
        vh \in IF m = "adaptive_val" THEN SeqsUpTo(LossVals, MaxMetricHist)
               ELSE UnreadHists,
        gh \in IF m = "adaptive_grad" THEN SeqsUpTo(LossVals, MaxMetricHist)
               ELSE UnreadHists}

----------------------------------------------------------------------------
(* Actions *)

\* the scheduler is called for the current epoch
Call ==
    /\ pc = "idle"
    /\ tau' = scheduler(args, total_epochs, epoch_idx, state)
    /\ state' = state_after_call(args, state)
    /\ pc' = "called"
    /\ UNCHANGED <<args, total_epochs, epoch_idx>>

\* the scheduler is called once more with the same epoch index and state
CallAgain ==
    /\ pc = "called"
    /\ tau' = scheduler(args, total_epochs, epoch_idx, state)
    /\ state' = state_after_call(args, state)
    /\ UNCHANGED <<args, total_epochs, epoch_idx, pc>>

\* the Driver appends the epoch's tau and metrics and moves to the next epoch
DriverAppend ==
    /\ pc = "called"
    /\ epoch_idx < MaxRunEpoch
    /\ \E v \in LossVals, g \in LossVals :
         state' = [tau_hist |-> Append(state.tau_hist, tau),
                   val_loss_hist |-> Append(state.val_loss_hist, v),
                   grad_norm_hist |-> Append(state.grad_norm_hist, g)]
    /\ epoch_idx' = epoch_idx + 1
    /\ pc' = "idle"
    /\ UNCHANGED <<args, total_epochs, tau>>

Next == Call \/ CallAgain \/ DriverAppend

\* a training run: histories start empty at epoch 0
Init ==
    /\ args \in Configs
    /\ total_epochs \in TotalEpochs
    /\ state = EmptyState
    /\ epoch_idx = 0
    /\ tau = args.tau_min
    /\ pc = "idle"

Spec == Init /\ [][Next]_vars

\* the scheduler as a function: calls on any configuration, epoch index and state
CallInit ==
    /\ args \in Configs
    /\ total_epochs \in TotalEpochs
    /\ state \in States(args.threshold_method)
    /\ epoch_idx \in 0..MaxEpoch
    /\ tau = args.tau_min
    /\ pc = "idle"

CallNext == Call \/ CallAgain

CallSpec == CallInit /\ [][CallNext]_vars

----------------------------------------------------------------------------
(* Long adaptive runs *)

\* the last n entries of h
Recent(h, n) == IF Len(h) <= n THEN h ELSE SubSeq(h, Len(h) - n + 1, Len(h))

\* the part of the state that the scheduler of method m can read: the last
\* tau_hist entry, and the last two entries (with "fewer than two" kept as
\* such) of the metric history whose key m reads
Readable(m, st) ==
    [tau_hist |-> Recent(st.tau_hist, 1),
     val_loss_hist |-> Recent(st.val_loss_hist,
                              IF m = "adaptive_val" THEN 2 ELSE 0),
     grad_norm_hist |-> Recent(st.grad_norm_hist,
                               IF m = "adaptive_grad" THEN 2 ELSE 0)]

\* the Driver's append, with the state kept up to what the scheduler can read
DriverAppendRecent ==
    /\ pc = "called"
    /\ epoch_idx < MaxLongEpoch
    /\ \E v \in LossVals, g \in LossVals :
         state' = Readable(args.threshold_method,
                           [tau_hist |-> Append(state.tau_hist, tau),
                            val_loss_hist |-> Append(state.val_loss_hist, v),
                            grad_norm_hist |-> Append(state.grad_norm_hist, g)])
    /\ epoch_idx' = epoch_idx + 1
    /\ pc' = "idle"
    /\ UNCHANGED <<args, total_epochs, tau>>

\* an adaptive run that starts from any last tau within the bounds, or none
LongInit ==
    /\ args \in {a \in Configs : a.threshold_method \in {"adaptive_val", "adaptive_grad"}}
    /\ total_epochs \in TotalEpochs
    /\ \E th \in SeqsUpTo(TauVals, 1) :
         /\ \A i \in 1..Len(th) :
               /\ Min2(args.tau_min, args.tau_max) <= th[i]
               /\ th[i] <= Max2(args.tau_min, args.tau_max)
         /\ state = [EmptyState EXCEPT !.tau_hist = th]
    /\ epoch_idx = 0
    /\ tau = args.tau_min
    /\ pc = "idle"

LongNext == Call \/ CallAgain \/ DriverAppendRecent

LongSpec == LongInit /\ [][LongNext]_vars

----------------------------------------------------------------------------
(* Vocabulary of the properties *)

Method == args.threshold_method
TauMinEff == Min2(args.tau_min, args.tau_max)
TauMaxEff == Max2(args.tau_min, args.tau_max)
Range == TauMaxEff - TauMinEff
Called == pc = "called"
NoHistory == state.tau_hist = <<>>
\* the last tau_hist entry, tau_min when there is none
LastTau == IF NoHistory THEN args.tau_min ELSE state.tau_hist[Len(state.tau_hist)]
\* v restricted to the order-normalized bounds
Bounded(v) == Max2(TauMinEff, Min2(TauMaxEff, v))
\* the latest entry of h is lower than the one before it by more than 1e-6
DroppedBy(h) == Len(h) >= 2 /\ h[Len(h) - 1] - h[Len(h)] > Eps

----------------------------------------------------------------------------
(* C1 *)

\* C1 (as stated): for every method, epoch index and state, the returned
\* tau lies within the order-normalized bounds.
C1_TauWithinBounds ==
    Called => TauMinEff <= tau /\ tau <= TauMaxEff

----------------------------------------------------------------------------
(* C2 *)

\* C2: in a training run that starts from empty histories, for each of the
\* seven named methods the returned taus are non-increasing: tau_hist is a
\* non-increasing sequence and the tau just returned is at most its last entry.
C2_NonIncreasing ==
    Method \in KnownMethods =>
        /\ \A i \in 1..(Len(state.tau_hist) - 1) :
              state.tau_hist[i + 1] <= state.tau_hist[i]
        /\ Called /\ ~NoHistory => tau <= LastTau

\* three epochs of an adaptive run, each tau strictly below the one before
C2_Witness ==
    /\ Called
    /\ Method = "adaptive_val"
    /\ Len(state.tau_hist) = 2
    /\ state.tau_hist[2] < state.tau_hist[1]
    /\ tau < state.tau_hist[2]

----------------------------------------------------------------------------
(* C3 *)

\* C3 (as stated): linear with total_epochs > 1 and an empty history returns
\* tau_min_eff at epoch 0 and tau_max_eff at epoch total_epochs - 1.
C3_LinearEndpoints ==
    Called /\ Method = "linear" /\ total_epochs > 1 /\ NoHistory =>
        /\ epoch_idx = 0 => tau = TauMinEff
        /\ epoch_idx = total_epochs - 1 => tau = TauMaxEff

----------------------------------------------------------------------------
(* C4 *)

\* C4 (as stated): fixed with tau_min <= tau_max returns exactly tau_min for
\* every epoch index and every history.
C4_FixedIgnoresHistory ==
    Called /\ Method = "fixed" /\ args.tau_min <= args.tau_max =>
        tau = args.tau_min

----------------------------------------------------------------------------
(* C5 *)

\* C5 (as stated): adaptive_grad with at least two gradient norms returns
\* clamp(last_tau - 0.04*R) whether or not the norm decreased.
C5_GradSingleStep ==
    Called /\ Method = "adaptive_grad" /\ Len(state.grad_norm_hist) >= 2 =>
        tau = Bounded(LastTau - Div(4 * Range, 100))

\* C5 (amended): adaptive_grad with at least two gradient norms returns
\* clamp(last_tau - 0.04*R) when the latest norm is lower than the previous
\* one by more than 1e-6, and clamp(last_tau - 0.02*R) when it is not.
C5_GradFastSlow ==
    Called /\ Method = "adaptive_grad" /\ Len(state.grad_norm_hist) >= 2 =>
        tau = IF DroppedBy(state.grad_norm_hist)
              THEN Bounded(LastTau - Div(4 * Range, 100))
              ELSE Bounded(LastTau - Div(2 * Range, 100))

\* a norm that did not decrease: the slow step is taken, and it shows
C5_Witness ==
    /\ Called
    /\ Method = "adaptive_grad"
    /\ Len(state.grad_norm_hist) >= 2
    /\ ~DroppedBy(state.grad_norm_hist)
    /\ tau = LastTau - Div(2 * Range, 100)
    /\ tau > TauMinEff

----------------------------------------------------------------------------
(* C6 *)

\* C6: adaptive_val returns clamp(last_tau - 0.05*R) exactly when there are
\* two losses and the latest is lower than the previous by more than 1e-6,
\* and clamp(last_tau - 0.02*R) otherwise (fewer than two losses, equal
\* losses, an improvement of at most 1e-6); with bounds 0.0 and 1.0 and empty
\* histories the result is 0.0.
C6_ValFastSlow ==
    Called /\ Method = "adaptive_val" =>
        /\ tau = IF DroppedBy(state.val_loss_hist)
                 THEN Bounded(LastTau - Div(5 * Range, 100))
                 ELSE Bounded(LastTau - Div(2 * Range, 100))
        /\ args.tau_min = 0 /\ args.tau_max = Scale /\ state = EmptyState
              => tau = 0

\* an improvement of exactly 1e-6 takes the slow step
C6_Witness ==
    /\ Called
    /\ Method = "adaptive_val"
    /\ state.val_loss_hist = <<2, 0>>
    /\ tau = LastTau - Div(2 * Range, 100)
    /\ tau > TauMinEff

----------------------------------------------------------------------------
(* C7 *)

\* C7 (as stated): for the adaptive methods and every state the returned tau
\* never exceeds last_tau and stays within the order-normalized bounds.
C7_NeverAboveLastTau ==
    Called /\ Method \in {"adaptive_val", "adaptive_grad"} =>
        tau <= LastTau /\ TauMinEff <= tau /\ tau <= TauMaxEff

\* C7 (amended): for the adaptive methods and every state the returned tau
\* stays within the order-normalized bounds, and it never exceeds last_tau
\* whenever last_tau is at least tau_min_eff.
C7_NeverAboveInBoundsLastTau ==
    Called /\ Method \in {"adaptive_val", "adaptive_grad"} =>
        /\ TauMinEff <= tau /\ tau <= TauMaxEff
        /\ LastTau >= TauMinEff => tau <= LastTau

\* a last tau inside the bounds, and a returned tau below it
C7_Witness ==
    /\ Called
    /\ Method \in {"adaptive_val", "adaptive_grad"}
    /\ ~NoHistory
    /\ LastTau > TauMinEff /\ LastTau < TauMaxEff
    /\ tau < LastTau

----------------------------------------------------------------------------
(* C8 *)

\* C8 (as stated): fixed with an empty history returns min(tau_min, tau_max)
\* at every epoch index, for bounds in either order.
C8_FixedReturnsLowerBound ==
    Called /\ Method = "fixed" /\ NoHistory => tau = TauMinEff

\* C8 (amended): fixed with an empty history returns the configured tau_min
\* at every epoch index: min(tau_min, tau_max) when tau_min <= tau_max, and
\* max(tau_min, tau_max) when the bounds are supplied inverted.
C8_FixedReturnsTauMin ==
    Called /\ Method = "fixed" /\ NoHistory =>
        /\ tau = args.tau_min
        /\ args.tau_min > args.tau_max => tau = TauMaxEff

\* inverted bounds: the upper bound comes back
C8_Witness ==
    /\ Called
    /\ Method = "fixed"
    /\ NoHistory
    /\ args.tau_min > args.tau_max
    /\ tau = TauMaxEff

----------------------------------------------------------------------------
(* C9 *)

\* C9: for an unrecognized method the scheduler returns tau_min (which is
\* clamp(tau_min, tau_min, tau_max)) at every epoch index and for every
\* state, also when the last tau_hist entry is lower.
C9_FallbackIgnoresHistory ==
    Called /\ Method \notin KnownMethods => tau = args.tau_min

\* a last tau below tau_min that the fallback does not take
C9_Witness ==
    /\ Called
    /\ Method \notin KnownMethods
    /\ ~NoHistory /\ LastTau < args.tau_min
    /\ state.val_loss_hist # <<>>
    /\ tau = args.tau_min

----------------------------------------------------------------------------
(* C10 *)

----------------------------------------------------------------------------
(* C11 *)

----------------------------------------------------------------------------
(* C12 *)

\* the smallest step of the adaptive methods, 0.02 * |tau_max - tau_min|
SlowStep == Div(2 * Range, 100)
\* the number of slow steps that span the whole range, 1 / 0.02
EpochsToFloor == 100 \div 2

====
